---------------------------- MODULE Spec2Model ----------------------------
(***************************************************************************)
(* Model of the Carbon Black loader's remote registry                      *)
(* (dissect/target/loaders/cb.py): CbRegistry, CbRegistryHive,             *)
(* CbRegistryKey and CbRegistryValue.                                      *)
(*                                                                         *)
(* A Python str is a sequence of one-character strings, so that lower(),   *)
(* split(), join(), bytes.fromhex() and int() are computed character by    *)
(* character as the interpreter computes them.                             *)
(***************************************************************************)
EXTENDS Integers, Sequences, FiniteSets, TLC

VARIABLES
    nodes,      \* the CbRegistryKey instances alive, in creation order
    gen,        \* the generator object the last values() call returned
    last,       \* what the last call did: operation, outcome, results
    dec,        \* the decoder's input and result (SpecDecode)
    mapper      \* CbRegistry._init_registry's loop and the plugin's tables (SpecMapper)

vars == <<nodes, gen, last, dec, mapper>>

-----------------------------------------------------------------------------
(* Bounds of the model *)

\* CbRegistryKey instances kept alive at once
MaxNodes == 2
\* length of a raw value's data string handed to the decoder
MaxDataLen == 3
\* entries of the MAPPINGS table
NumMappings == 3
\* raw value records in one remote listing (SpecValues)
MaxValues == 3
\* longest relative path handed to hive.key() when paths are explored alone
MaxPathLen == 3

-----------------------------------------------------------------------------
(* Python str operations *)

SEP == "\\"

\* str.lower() on one character of the alphabets used
LowerChar(c) ==
    CASE c = "S" -> "s"
      [] c = "Y" -> "y"
      [] c = "V" -> "v"
      [] c = "A" -> "a"
      [] c = "F" -> "f"
      [] OTHER -> c

\* str.lower()
Lower(s) == [i \in 1..Len(s) |-> LowerChar(s[i])]

\* sep.join([a, b]) for a one-character separator
Join2(a, sep, b) == a \o <<sep>> \o b

\* the index of the first occurrence of character c in s, or 0
RECURSIVE FindChar(_, _, _)
FindChar(s, c, i) ==
    IF i > Len(s) THEN 0
    ELSE IF s[i] = c THEN i
    ELSE FindChar(s, c, i + 1)

\* Split, had the empty pieces been dropped, as split() with no separator does
RECURSIVE Split_DropEmpty(_, _)
Split_DropEmpty(s, c) ==
    LET i == FindChar(s, c, 1)
    IN  IF i = 0 THEN (IF s = <<>> THEN <<>> ELSE <<s>>)
        ELSE (IF i = 1 THEN <<>> ELSE <<SubSeq(s, 1, i - 1)>>)
                 \o Split_DropEmpty(SubSeq(s, i + 1, Len(s)), c)

\* str.split(c) for a one-character separator: always at least one piece
RECURSIVE Split(_, _)
Split(s, c) ==
    LET i == FindChar(s, c, 1)
    IN  IF i = 0 THEN <<s>>
        ELSE <<SubSeq(s, 1, i - 1)>> \o Split(SubSeq(s, i + 1, Len(s)), c)

\* the last element of a non-empty sequence: xs[-1]
Last(xs) == xs[Len(xs)]

\* all sequences over alphabet of length at most n
Strs(alphabet, n) == UNION {[1..k -> alphabet] : k \in 0..n}

-----------------------------------------------------------------------------
(* bytes.fromhex() and int(), as CPython computes them *)

\* ASCII whitespace, skipped by bytes.fromhex and stripped by int
WS == {" ", "\t", "\n"}

DecDigits == <<"0", "1", "2", "3", "4", "5", "6", "7", "8", "9">>
HexLower == <<"a", "b", "c", "d", "e", "f">>
HexUpper == <<"A", "B", "C", "D", "E", "F">>

IsDigit(c) == \E k \in 1..10 : DecDigits[k] = c
DigitVal(c) == (CHOOSE k \in 1..10 : DecDigits[k] = c) - 1

IsHexDigit(c) ==
    \/ IsDigit(c)
    \/ \E k \in 1..6 : HexLower[k] = c \/ HexUpper[k] = c

HexVal(c) ==
    IF IsDigit(c) THEN DigitVal(c)
    ELSE 9 + (CHOOSE k \in 1..6 : HexLower[k] = c \/ HexUpper[k] = c)

\* FromHex, had a character that is no hex digit been skipped like whitespace
RECURSIVE FromHex_SkipsJunk(_)
FromHex_SkipsJunk(s) ==
    IF s = <<>> THEN [ok |-> TRUE, bytes |-> <<>>]
    ELSE IF ~IsHexDigit(s[1]) THEN FromHex_SkipsJunk(Tail(s))
    ELSE IF Len(s) >= 2 /\ IsHexDigit(s[2])
    THEN LET rest == FromHex_SkipsJunk(SubSeq(s, 3, Len(s)))
         IN  IF rest.ok
             THEN [ok |-> TRUE, bytes |-> <<16 * HexVal(s[1]) + HexVal(s[2])>> \o rest.bytes]
             ELSE rest
    ELSE [ok |-> FALSE, bytes |-> <<>>]

\* bytes.fromhex(s): whitespace is skipped before each byte, then exactly two hex
\* digits make one byte; anything else is a ValueError
RECURSIVE FromHex(_)
FromHex(s) ==
    IF s = <<>> THEN [ok |-> TRUE, bytes |-> <<>>]
    ELSE IF s[1] \in WS THEN FromHex(Tail(s))
    ELSE IF Len(s) >= 2 /\ IsHexDigit(s[1]) /\ IsHexDigit(s[2])
    THEN LET rest == FromHex(SubSeq(s, 3, Len(s)))
         IN  IF rest.ok
             THEN [ok |-> TRUE, bytes |-> <<16 * HexVal(s[1]) + HexVal(s[2])>> \o rest.bytes]
             ELSE rest
    ELSE [ok |-> FALSE, bytes |-> <<>>]

\* s without its leading whitespace
RECURSIVE LStrip(_)
LStrip(s) == IF s /= <<>> /\ s[1] \in WS THEN LStrip(Tail(s)) ELSE s

\* s without its trailing whitespace
RECURSIVE RStrip(_)
RStrip(s) ==
    IF s /= <<>> /\ s[Len(s)] \in WS THEN RStrip(SubSeq(s, 1, Len(s) - 1)) ELSE s

\* digit ("_"? digit)* : the digits of a base-10 literal
RECURSIVE IsDigitPart(_)
IsDigitPart(s) ==
    /\ s /= <<>>
    /\ IsDigit(s[1])
    /\ \/ Len(s) = 1
       \/ /\ s[2] = "_"
          /\ IsDigitPart(SubSeq(s, 3, Len(s)))
       \/ /\ s[2] /= "_"
          /\ IsDigitPart(Tail(s))

\* A Python int has no width. It is kept as a sign and a magnitude of 16-bit
\* limbs, least significant first, with no leading zero limb, so that values
\* beyond the model checker's own integers are exact.
LimbBase == 65536

\* a Python int from its sign and limbs: -0 is 0
MkInt(neg, mag) == [neg |-> neg /\ mag /= <<>>, mag |-> mag]

IntZero == MkInt(FALSE, <<>>)

\* mag * m + a, for small m and a
RECURSIVE MulAdd(_, _, _)
MulAdd(mag, m, a) ==
    IF mag = <<>>
    THEN (IF a = 0 THEN <<>> ELSE <<a % LimbBase>> \o MulAdd(<<>>, m, a \div LimbBase))
    ELSE LET x == mag[1] * m + a
         IN  <<x % LimbBase>> \o MulAdd(Tail(mag), m, x \div LimbBase)

\* mag without its leading (last) zero limbs
RECURSIVE Normalize(_)
Normalize(mag) ==
    IF mag /= <<>> /\ mag[Len(mag)] = 0 THEN Normalize(SubSeq(mag, 1, Len(mag) - 1))
    ELSE mag

\* the number the digits of s spell, underscores skipped, continuing from acc
RECURSIVE DigitsValue(_, _)
DigitsValue(s, acc) ==
    IF s = <<>> THEN acc
    ELSE IF s[1] = "_" THEN DigitsValue(Tail(s), acc)
    ELSE DigitsValue(Tail(s), MulAdd(acc, 10, DigitVal(s[1])))

\* ParseInt, had the value been stored in a 32-bit unsigned field: it wraps
ParseInt_Wraps32(s) ==
    LET t == RStrip(LStrip(s))
        signed == t /= <<>> /\ t[1] \in {"+", "-"}
        digits == IF signed THEN Tail(t) ELSE t
        mag == DigitsValue(digits, <<>>)
    IN  IF IsDigitPart(digits)
        THEN [ok |-> TRUE,
              int |-> MkInt(signed /\ t[1] = "-",
                            Normalize(SubSeq(mag, 1, IF Len(mag) < 2 THEN Len(mag) ELSE 2)))]
        ELSE [ok |-> FALSE, int |-> IntZero]

\* int(s): surrounding whitespace is stripped, one sign is allowed, the digits may
\* be grouped by single underscores; anything else is a ValueError
ParseInt(s) ==
    LET t == RStrip(LStrip(s))
        signed == t /= <<>> /\ t[1] \in {"+", "-"}
        digits == IF signed THEN Tail(t) ELSE t
    IN  IF IsDigitPart(digits)
        THEN [ok |-> TRUE,
              int |-> MkInt(signed /\ t[1] = "-", DigitsValue(digits, <<>>))]
        ELSE [ok |-> FALSE, int |-> IntZero]

-----------------------------------------------------------------------------
(* CbRegistryValue *)

REG_BINARY == "pbREG_BINARY"
REG_DWORD == "pbREG_DWORD"
REG_QWORD == "pbREG_QWORD"
REG_MULTI_SZ == "pbREG_MULTI_SZ"
REG_SZ == "pbREG_SZ"
\* a tag the wire format does not define
REG_OTHER == "pbREG_NONE"

TypeTags == {REG_BINARY, REG_DWORD, REG_QWORD, REG_MULTI_SZ, REG_SZ, REG_OTHER}

\* a CbRegistryValue: kind says which of the fields b (bytes), i (int), l (list of
\* str) and s (str) holds _value
MkValue(name, type, kind, b, i, l, s) ==
    [ok |-> TRUE, name |-> name, type |-> type, kind |-> kind,
     b |-> b, i |-> i, l |-> l, s |-> s]

\* the constructor raised ValueError: no object exists
NoValue(name, type) ==
    [ok |-> FALSE, name |-> name, type |-> type, kind |-> "none",
     b |-> <<>>, i |-> IntZero, l |-> <<>>, s |-> <<>>]

\* CbRegistryValue.__init__(hive, name, data, type_)
Decode(name, data, type) ==
    IF type = REG_BINARY
    THEN LET r == FromHex(data)
         IN  IF r.ok THEN MkValue(name, type, "bytes", r.bytes, IntZero, <<>>, <<>>)
             ELSE NoValue(name, type)
    ELSE IF type \in {REG_DWORD, REG_QWORD}
    THEN LET r == ParseInt(data)
         IN  IF r.ok THEN MkValue(name, type, "int", <<>>, r.int, <<>>, <<>>)
             ELSE NoValue(name, type)
    ELSE IF type = REG_MULTI_SZ
    THEN MkValue(name, type, "list", <<>>, IntZero, Split(data, ","), <<>>)
    ELSE MkValue(name, type, "str", <<>>, IntZero, <<>>, data)

\* one raw value record of the remote listing
Rec(name, data, type) ==
    [registry_name |-> name, registry_data |-> data, registry_type |-> type]

\* the CbRegistryValue the generator of values() builds from one record
DecodeRec(val) == Decode(val.registry_name, val.registry_data, val.registry_type)

-----------------------------------------------------------------------------
(* The remote session: LiveResponseSession.list_registry_keys_and_values *)

\* key names, as character sequences
K_Sy == <<"S", "y">>
K_sy == <<"s", "y">>
K_SY == <<"S", "Y">>
K_k == <<"k">>

\* value names
N_Va == <<"V", "a">>
N_va == <<"v", "a">>
N_VA == <<"V", "A">>
N_n == <<"n">>

\* raw value records: well-formed ones, and two whose data does not fit the tag
V_bin == Rec(N_Va, <<"f", "F">>, REG_BINARY)
V_dword == Rec(N_VA, <<"1", "2">>, REG_DWORD)
V_multi == Rec(N_n, <<"a", ",", "b">>, REG_MULTI_SZ)
V_sz == Rec(N_n, <<"a", ",", "b">>, REG_SZ)
V_badbin == Rec(N_n, <<"f", "g">>, REG_BINARY)
V_badint == Rec(N_va, <<"f">>, REG_QWORD)

\* the dict a successful call returns: it always has both keys
Listing(sub_keys, values) == [sub_keys |-> sub_keys, values |-> values]

\* what the remote may answer to a list call; the remote state is not under the
\* program's control, so any call may get any of these
Responses ==
    { Listing(<<>>, <<>>),
      Listing(<<K_Sy>>, <<V_bin, V_dword>>),
      Listing(<<K_k, K_SY>>, <<V_sz, V_badbin, V_bin>>),
      Listing(<<K_sy, K_Sy>>, <<V_multi, V_badint>>) }

\* the outcome of one remote call: it raises, or it returns a listing
Replies ==
    {[ok |-> FALSE, resp |-> Listing(<<>>, <<>>)]}
        \cup {[ok |-> TRUE, resp |-> r] : r \in Responses}

-----------------------------------------------------------------------------
(* CbRegistryHive and CbRegistryKey *)

\* CbRegistryHive.rootkey of the hive the nodes belong to
RootKey == <<"H">>

\* relative paths handed to CbRegistryHive.key
RelPaths == {K_Sy}

\* names handed to subkey()
SubkeyArgs == {K_Sy, K_sy, <<"m">>}

\* names handed to value()
ValueArgs == {N_va, <<"q">>}

\* _data is None (<<>>) or the dict a call returned (<<dict>>)
None == <<>>

\* CbRegistryKey.__init__(hive, key, data): oks counts the remote list calls for
\* this instance that returned
NewKey(key, data) == [key |-> key, data |-> data, oks |-> 0]

\* HiveKeyNode, had key() listed the key at once and handed the listing to the node
HiveKeyNode_Prefetched(key) ==
    [NewKey(Join2(RootKey, SEP, key), <<Listing(<<K_Sy>>, <<>>)>>) EXCEPT !.oks = 1]

\* CbRegistryHive.key(key)
HiveKeyNode(key) == NewKey(Join2(RootKey, SEP, key), None)

\* Truthy, had the listing's lists been tested instead of the dict: a listing
\* with no child keys and no values counts as not fetched
Truthy_EmptyListingFalsy(d) ==
    d /= None /\ (d[1].sub_keys /= <<>> \/ d[1].values /= <<>>)

\* bool(self._data): None is falsy, a dict is truthy unless it has no keys
Truthy(d) == d /= None /\ Cardinality(DOMAIN d[1]) > 0

\* Data, had the failure been swallowed and an empty listing stored
Data_CachesFailure(nd, reply) ==
    IF Truthy(nd.data)
    THEN [nd |-> nd, raised |-> FALSE, rcalls |-> 0]
    ELSE IF reply.ok
    THEN [nd |-> [nd EXCEPT !.data = <<reply.resp>>, !.oks = @ + 1],
          raised |-> FALSE, rcalls |-> 1]
    ELSE [nd |-> [nd EXCEPT !.data = <<Listing(<<>>, <<>>)>>], raised |-> TRUE, rcalls |-> 1]

\* Data, had a remote call that raised been issued once more before giving up
Data_RetriesOnce(nd, reply) ==
    IF Truthy(nd.data)
    THEN [nd |-> nd, raised |-> FALSE, rcalls |-> 0]
    ELSE IF reply.ok
    THEN [nd |-> [nd EXCEPT !.data = <<reply.resp>>, !.oks = @ + 1],
          raised |-> FALSE, rcalls |-> 1]
    ELSE [nd |-> nd, raised |-> TRUE, rcalls |-> 2]

\* CbRegistryKey.data: [nd |-> the node afterwards, raised |-> the call raised,
\* rcalls |-> the remote list calls issued]
Data(nd, reply) ==
    IF Truthy(nd.data)
    THEN [nd |-> nd, raised |-> FALSE, rcalls |-> 0]
    ELSE IF reply.ok
    THEN [nd |-> [nd EXCEPT !.data = <<reply.resp>>, !.oks = @ + 1],
          raised |-> FALSE, rcalls |-> 1]
    ELSE [nd |-> nd, raised |-> TRUE, rcalls |-> 1]

\* Name, had the first segment been taken instead of the last
Name_FirstSegment(nd) == Split(nd.key, SEP)[1]

\* CbRegistryKey.name
Name(nd) == Last(Split(nd.key, SEP))

\* CbRegistryKey.path
Path(nd) == nd.key

\* CbRegistryKey.timestamp
Timestamp(nd) == None

\* the properties of a node that are computed from its key alone
Properties == {"name", "path", "timestamp"}

\* reading property prop of node nd: what the read returned, nothing for None
Property(nd, prop) ==
    IF prop = "name" THEN <<Name(nd)>>
    ELSE IF prop = "path" THEN <<Path(nd)>>
    ELSE IF Timestamp(nd) = None THEN <<>>
    ELSE <<Timestamp(nd)>>

\* SubkeyMatches, had the entries been compared without lower()
RECURSIVE SubkeyMatches_EntryCase(_, _)
SubkeyMatches_EntryCase(sub_keys, subkey_val) ==
    IF sub_keys = <<>> THEN FALSE
    ELSE IF sub_keys[1] = subkey_val THEN TRUE
    ELSE SubkeyMatches_EntryCase(Tail(sub_keys), subkey_val)

\* the for loop of subkey(): whether some entry of sub_keys matches
RECURSIVE SubkeyMatches(_, _)
SubkeyMatches(sub_keys, subkey_val) ==
    IF sub_keys = <<>> THEN FALSE
    ELSE IF Lower(sub_keys[1]) = subkey_val THEN TRUE
    ELSE SubkeyMatches(Tail(sub_keys), subkey_val)

\* what a call on a node did: the node afterwards, how the call ended, the keys
\* of the nodes it returned, the values it returned, the remote calls it issued
Result(nd, outcome, keys, vals, rcalls) ==
    [nd |-> nd, outcome |-> outcome, keys |-> keys, vals |-> vals, rcalls |-> rcalls]

\* Subkey, had the child's path been built from the entry that matched
Subkey_EntryCasing(nd, subkey, reply) ==
    LET d == Data(nd, reply)
        ch == d.nd.data[1].sub_keys
        hit == CHOOSE i \in 1..Len(ch) :
                  /\ Lower(ch[i]) = Lower(subkey)
                  /\ \A j \in 1..(i - 1) : Lower(ch[j]) /= Lower(subkey)
    IN  IF d.raised
        THEN Result(d.nd, "RemoteFetchError", <<>>, <<>>, d.rcalls)
        ELSE IF SubkeyMatches(ch, Lower(subkey))
        THEN Result(d.nd, "ok", <<Join2(d.nd.key, SEP, ch[hit])>>, <<>>, d.rcalls)
        ELSE Result(d.nd, "KeyNotFound", <<>>, <<>>, d.rcalls)

\* CbRegistryKey.subkey(subkey) on node nd
Subkey(nd, subkey, reply) ==
    LET d == Data(nd, reply)
    IN  IF d.raised
        THEN Result(d.nd, "RemoteFetchError", <<>>, <<>>, d.rcalls)
        ELSE IF SubkeyMatches(d.nd.data[1].sub_keys, Lower(subkey))
        THEN Result(d.nd, "ok", <<Join2(d.nd.key, SEP, subkey)>>, <<>>, d.rcalls)
        ELSE Result(d.nd, "KeyNotFound", <<>>, <<>>, d.rcalls)

\* consuming map(self.subkey, names): subkey() is called for each name in turn
\* and the first call that raises ends the walk
RECURSIVE MapSubkey(_, _, _, _, _)
MapSubkey(nd, names, reply, acc, rcalls) ==
    IF names = <<>> THEN Result(nd, "ok", acc, <<>>, rcalls)
    ELSE LET r == Subkey(nd, names[1], reply)
         IN  IF r.outcome = "ok"
             THEN MapSubkey(r.nd, Tail(names), reply, acc \o r.keys, rcalls + r.rcalls)
             ELSE Result(r.nd, r.outcome, acc, <<>>, rcalls + r.rcalls)

\* Subkeys, had the child list been walked over a set of its names: entries
\* equal up to case are visited once
Subkeys_Deduplicated(nd, reply, reply2) ==
    LET d == Data(nd, reply)
        ch == d.nd.data[1].sub_keys
        firsts == SelectSeq([i \in 1..Len(ch) |-> i],
                            LAMBDA i : \A j \in 1..(i - 1) : Lower(ch[j]) /= Lower(ch[i]))
    IN  IF d.raised
        THEN Result(d.nd, "RemoteFetchError", <<>>, <<>>, d.rcalls)
        ELSE MapSubkey(d.nd, [k \in 1..Len(firsts) |-> ch[firsts[k]]], reply2, <<>>, d.rcalls)

\* list(CbRegistryKey.subkeys()): self.data is read once for the map's argument
\* (reply), then by every subkey() call the map makes (reply2)
Subkeys(nd, reply, reply2) ==
    LET d == Data(nd, reply)
    IN  IF d.raised
        THEN Result(d.nd, "RemoteFetchError", <<>>, <<>>, d.rcalls)
        ELSE MapSubkey(d.nd, d.nd.data[1].sub_keys, reply2, <<>>, d.rcalls)

\* ScanValues, had the raw name been compared first and only the match decoded
RECURSIVE ScanValues_NameFirst(_, _)
ScanValues_NameFirst(recs, reg_value) ==
    IF recs = <<>> THEN [outcome |-> "ValueNotFound", vals |-> <<>>]
    ELSE IF Lower(recs[1].registry_name) = reg_value
    THEN LET val == DecodeRec(recs[1])
         IN  IF val.ok THEN [outcome |-> "ok", vals |-> <<val>>]
             ELSE [outcome |-> "InvalidEncoding", vals |-> <<>>]
    ELSE ScanValues_NameFirst(Tail(recs), reg_value)

\* the for loop of value() over the generator of values(): records are decoded
\* one by one until a name matches; a record that does not decode raises
RECURSIVE ScanValues(_, _)
ScanValues(recs, reg_value) ==
    IF recs = <<>> THEN [outcome |-> "ValueNotFound", vals |-> <<>>]
    ELSE LET val == DecodeRec(recs[1])
         IN  IF ~val.ok THEN [outcome |-> "InvalidEncoding", vals |-> <<>>]
             ELSE IF Lower(val.name) = reg_value THEN [outcome |-> "ok", vals |-> <<val>>]
             ELSE ScanValues(Tail(recs), reg_value)

\* Value, had a lookup that found nothing dropped the listing to have it read anew
Value_ClearsOnMiss(nd, value, reply) ==
    LET d == Data(nd, reply)
    IN  IF d.raised
        THEN Result(d.nd, "RemoteFetchError", <<>>, <<>>, d.rcalls)
        ELSE LET r == ScanValues(d.nd.data[1].values, Lower(value))
             IN  Result(IF r.outcome = "ValueNotFound" THEN [d.nd EXCEPT !.data = None]
                        ELSE d.nd,
                        r.outcome, <<>>, r.vals, d.rcalls)

\* CbRegistryKey.value(value) on node nd
Value(nd, value, reply) ==
    LET d == Data(nd, reply)
    IN  IF d.raised
        THEN Result(d.nd, "RemoteFetchError", <<>>, <<>>, d.rcalls)
        ELSE LET r == ScanValues(d.nd.data[1].values, Lower(value))
             IN  Result(d.nd, r.outcome, <<>>, r.vals, d.rcalls)

-----------------------------------------------------------------------------
(* The generator of values() *)

\* no generator object exists yet
NoGen == [state |-> "none", node |-> 0, recs |-> <<>>, pos |-> 1, yielded |-> <<>>]

\* the generator expression of values() over the list recs of node n; yielded
\* lists the positions of the records it has produced
NewGen(n, recs) ==
    [state |-> "open", node |-> n, recs |-> recs, pos |-> 1, yielded |-> <<>>]

\* next() on generator g: it builds the CbRegistryValue of the next record; a
\* generator whose body raised is finished, like one that ran out
GenStep(g) ==
    IF g.state = "closed" \/ g.pos > Len(g.recs)
    THEN [gen |-> [g EXCEPT !.state = "closed"], outcome |-> "StopIteration", vals |-> <<>>]
    ELSE LET val == DecodeRec(g.recs[g.pos])
         IN  IF val.ok
             THEN [gen |-> [g EXCEPT !.pos = @ + 1, !.yielded = Append(@, g.pos)],
                   outcome |-> "ok", vals |-> <<val>>]
             ELSE [gen |-> [g EXCEPT !.state = "closed"],
                   outcome |-> "InvalidEncoding", vals |-> <<>>]

\* list(g): next() until the generator stops (outcome "ok") or raises
RECURSIVE Drain(_, _)
Drain(g, acc) ==
    LET r == GenStep(g)
    IN  IF r.outcome = "ok" THEN Drain(r.gen, acc \o r.vals)
        ELSE [outcome |-> IF r.outcome = "StopIteration" THEN "ok" ELSE r.outcome,
              vals |-> acc]

\* ValuesList, had the records been popped off the memoized list as they are decoded
ValuesList_Consumes(nd, reply) ==
    LET d == Data(nd, reply)
    IN  IF d.raised
        THEN Result(d.nd, "RemoteFetchError", <<>>, <<>>, d.rcalls)
        ELSE LET r == Drain(NewGen(0, d.nd.data[1].values), <<>>)
             IN  Result([d.nd EXCEPT !.data[1].values = <<>>], r.outcome, <<>>, r.vals,
                        d.rcalls)

\* list(CbRegistryKey.values()) on node nd
ValuesList(nd, reply) ==
    LET d == Data(nd, reply)
    IN  IF d.raised
        THEN Result(d.nd, "RemoteFetchError", <<>>, <<>>, d.rcalls)
        ELSE LET r == Drain(NewGen(0, d.nd.data[1].values), <<>>)
             IN  Result(d.nd, r.outcome, <<>>, r.vals, d.rcalls)

-----------------------------------------------------------------------------
(* State after construction *)

\* the record of one call: keys are the keys of the nodes it returned or the
\* string a property read returned, vals the values it returned, rcalls the
\* remote list calls it issued
Call(op, node, arg, outcome, keys, vals, rcalls) ==
    [op |-> op, node |-> node, arg |-> arg, outcome |-> outcome,
     keys |-> keys, vals |-> vals, rcalls |-> rcalls]

NoCall == Call("none", 0, <<>>, "ok", <<>>, <<>>, 0)

DecIdle == [type |-> REG_SZ, data |-> <<>>, done |-> FALSE, result |-> NoValue(<<>>, REG_SZ)]

MapperIdle ==
    [pc |-> "idle", idx |-> 1, hives |-> {}, roots |-> {}, failed |-> {}, error |-> "none"]

Init ==
    /\ nodes = <<>>
    /\ gen = NoGen
    /\ last = NoCall
    /\ dec = DecIdle
    /\ mapper = MapperIdle

-----------------------------------------------------------------------------
(* Operations on the hive and on key nodes *)

\* no remote call is made, so there is no reply
NoReply == [ok |-> FALSE, resp |-> Listing(<<>>, <<>>)]

\* the replies the remote may give when self.data is read with _data = d
RepliesFor(d, replies) == IF Truthy(d) THEN {NoReply} ELSE replies

\* Keep, had subkey() handed its own listing to the node it constructs
Keep_ChildInherits(n, nd, keys) ==
    LET upd == [nodes EXCEPT ![n] = nd]
    IN  IF keys /= <<>> /\ Len(nodes) < MaxNodes
        THEN Append(upd, NewKey(keys[1], nd.data))
        ELSE upd

\* the nodes after a call on node n that left it as nd and returned the new
\* nodes with the given keys: the caller keeps a returned node while it has room
Keep(n, nd, keys) ==
    LET upd == [nodes EXCEPT ![n] = nd]
    IN  IF keys /= <<>> /\ Len(nodes) < MaxNodes
        THEN Append(upd, NewKey(keys[1], None))
        ELSE upd

\* hive.key(p)
HiveKey(p) ==
    /\ Len(nodes) < MaxNodes
    /\ nodes' = Append(nodes, HiveKeyNode(p))
    /\ last' = Call("key", Len(nodes) + 1, p, "ok", <<HiveKeyNode(p).key>>, <<>>, 0)
    /\ UNCHANGED <<gen, dec, mapper>>

\* nodes[n].subkey(name)
DoSubkey(n, name, reply) ==
    /\ n \in DOMAIN nodes
    /\ LET r == Subkey(nodes[n], name, reply)
       IN  /\ nodes' = Keep(n, r.nd, r.keys)
           /\ last' = Call("subkey", n, name, r.outcome, r.keys, <<>>,
                           r.rcalls)
    /\ UNCHANGED <<gen, dec, mapper>>

\* list(nodes[n].subkeys())
DoSubkeys(n, reply, reply2) ==
    /\ n \in DOMAIN nodes
    /\ LET r == Subkeys(nodes[n], reply, reply2)
       IN  /\ nodes' = Keep(n, r.nd, r.keys)
           /\ last' = Call("subkeys", n, <<>>, r.outcome, r.keys, <<>>,
                           r.rcalls)
    /\ UNCHANGED <<gen, dec, mapper>>

\* nodes[n].value(name)
DoValue(n, name, reply) ==
    /\ n \in DOMAIN nodes
    /\ LET r == Value(nodes[n], name, reply)
       IN  /\ nodes' = [nodes EXCEPT ![n] = r.nd]
           /\ last' = Call("value", n, name, r.outcome, <<>>, r.vals,
                           r.rcalls)
    /\ UNCHANGED <<gen, dec, mapper>>

\* list(nodes[n].values())
DoValuesList(n, reply) ==
    /\ n \in DOMAIN nodes
    /\ LET r == ValuesList(nodes[n], reply)
       IN  /\ nodes' = [nodes EXCEPT ![n] = r.nd]
           /\ last' = Call("values", n, <<>>, r.outcome, <<>>, r.vals,
                           r.rcalls)
    /\ UNCHANGED <<gen, dec, mapper>>

\* nodes[n].name, nodes[n].path, nodes[n].timestamp
ReadProperty(n, prop) ==
    /\ n \in DOMAIN nodes
    /\ last' = Call(prop, n, <<>>, "ok", Property(nodes[n], prop), <<>>, 0)
    /\ UNCHANGED <<nodes, gen, dec, mapper>>

Next ==
    \/ \E p \in RelPaths : HiveKey(p)
    \/ \E n \in DOMAIN nodes, prop \in Properties : ReadProperty(n, prop)
    \/ \E n \in DOMAIN nodes, name \in SubkeyArgs :
          \E reply \in RepliesFor(nodes[n].data, Replies) : DoSubkey(n, name, reply)
    \/ \E n \in DOMAIN nodes :
          \E reply \in RepliesFor(nodes[n].data, Replies) :
             \E reply2 \in RepliesFor(Data(nodes[n], reply).nd.data, Replies) :
                DoSubkeys(n, reply, reply2)
    \/ \E n \in DOMAIN nodes, name \in ValueArgs :
          \E reply \in RepliesFor(nodes[n].data, Replies) : DoValue(n, name, reply)
    \/ \E n \in DOMAIN nodes :
          \E reply \in RepliesFor(nodes[n].data, Replies) : DoValuesList(n, reply)

Spec == Init /\ [][Next]_vars

-----------------------------------------------------------------------------
(* Claims about key nodes (Spec) *)

\* the accessors that read self.data
Accessors == {"subkey", "subkeys", "value", "values"}

\* the child list and the value list node n has memoized
ChildList(n) == nodes[n].data[1].sub_keys
ValueList(n) == nodes[n].data[1].values

\* C1: once a remote list call for a node has returned, whatever it returned,
\* no later call on that node issues a remote call, and so at most one remote
\* call per node instance ever returns.
C1_FetchMemoized ==
    /\ [](\A n \in DOMAIN nodes : nodes[n].oks <= 1)
    /\ [][\A n \in DOMAIN nodes :
            nodes[n].oks >= 1 =>
                /\ nodes'[n].oks = nodes[n].oks
                /\ nodes'[n].data = nodes[n].data
                /\ (last'.node = n /\ last'.op \in Accessors) => last'.rcalls = 0]_vars

\* an accessor ran without a remote call on a node whose one fetch returned a
\* listing with no child keys and no values
C1_Witness ==
    /\ last.op \in Accessors
    /\ last.rcalls = 0
    /\ nodes[last.node].oks = 1
    /\ nodes[last.node].data = <<Listing(<<>>, <<>>)>>

\* C2: when the remote call raises during an accessor, the accessor raises that
\* error, the cache stays empty, and the next accessor on the node issues a new
\* remote call whose listing, if it returns, is the one memoized.
C2_FailedFetchNotMemoized ==
    /\ [](last.outcome = "RemoteFetchError" =>
            /\ last.op \in Accessors
            /\ last.rcalls = 1
            /\ last.keys = <<>> /\ last.vals = <<>>
            /\ nodes[last.node].data = None
            /\ nodes[last.node].oks = 0)
    /\ [][(/\ last.outcome = "RemoteFetchError"
           /\ last'.op \in Accessors
           /\ last'.node = last.node
           /\ last' /= last) =>
             /\ last'.rcalls = 1
             /\ last'.outcome /= "RemoteFetchError" =>
                   /\ nodes'[last.node].oks = 1
                   /\ \E r \in Responses : nodes'[last.node].data = <<r>>]_vars

\* the remote call of an accessor raised and left the node's cache empty
C2_Witness ==
    /\ last.op = "subkeys"
    /\ last.outcome = "RemoteFetchError"
    /\ last.rcalls = 1
    /\ nodes[last.node].data = None

\* C3: subkey(n) returns a key node exactly when some entry of the fetched
\* child list equals n once both are lower-cased; otherwise it fails with
\* KeyNotFound and returns no node.
C3_SubkeyCaseInsensitive ==
    (last.op = "subkey" /\ last.outcome /= "RemoteFetchError") =>
        LET ch == ChildList(last.node)
            match == \E i \in 1..Len(ch) : Lower(ch[i]) = Lower(last.arg)
        IN  /\ match <=> (last.outcome = "ok" /\ Len(last.keys) = 1)
            /\ ~match => (last.outcome = "KeyNotFound" /\ last.keys = <<>>)

\* subkey(n) returned a node for a name that is in the child list only up to case
C3_Witness ==
    /\ last.op = "subkey"
    /\ last.outcome = "ok"
    /\ Len(last.keys) = 1
    /\ \A i \in 1..Len(ChildList(last.node)) : ChildList(last.node)[i] /= last.arg

\* C8: subkeys() yields one node per entry of the memoized child list, in the
\* list's order, each at the parent's path + "\" + the entry; it never fails
\* with KeyNotFound, and calling it again yields the same paths with no remote
\* call.
C8_SubkeysEnumerates ==
    /\ []((last.op = "subkeys" /\ last.outcome /= "RemoteFetchError") =>
            LET ch == ChildList(last.node)
            IN  /\ last.outcome = "ok"
                /\ Len(last.keys) = Len(ch)
                /\ \A i \in 1..Len(ch) :
                      last.keys[i] = nodes[last.node].key \o <<SEP>> \o ch[i])
    /\ [][(/\ last.op = "subkeys" /\ last.outcome = "ok"
           /\ last'.op = "subkeys" /\ last'.node = last.node) =>
             /\ last'.outcome = "ok"
             /\ last'.keys = last.keys
             /\ last'.rcalls = 0]_vars

\* subkeys() ran again on a cached list of two entries that differ only in case
C8_Witness ==
    /\ last.op = "subkeys"
    /\ last.outcome = "ok"
    /\ last.rcalls = 0
    /\ Len(last.keys) = 2
    /\ ChildList(last.node) = <<K_sy, K_Sy>>

\* C13: hive.key(p) and reading name, path or timestamp issue no remote call
\* and leave every node's cache as it was; the node key() returns has an empty
\* cache; timestamp returns nothing. A remote call is issued only by subkey,
\* subkeys, value or values, and only on a node for which no remote call has
\* returned yet.
C13_PureReadsNoFetch ==
    /\ [](/\ last.op \in Properties \cup {"key"} => last.rcalls = 0 /\ last.outcome = "ok"
          /\ last.op = "timestamp" => last.keys = <<>>
          /\ last.op = "key" =>
                nodes[last.node].data = None /\ nodes[last.node].oks = 0)
    /\ [][/\ last'.op \in Properties => nodes' = nodes
          /\ last'.op = "key" => \A n \in DOMAIN nodes : nodes'[n] = nodes[n]
          /\ (last'.rcalls > 0 /\ vars' /= vars) =>
                /\ last'.op \in Accessors
                /\ nodes[last'.node].data = None
                /\ nodes[last'.node].oks = 0]_vars

\* timestamp was read on a node whose cache is populated, and the cache is there
C13_Witness ==
    /\ last.op = "timestamp"
    /\ last.rcalls = 0
    /\ nodes[last.node].oks = 1
    /\ nodes[last.node].data /= None

\* C14: the cache belongs to one node instance. A node that key() or subkey()
\* constructs starts with an empty cache, whatever other instances of the same
\* path hold; an accessor on a node with an empty cache issues its own remote
\* call; and a call on one node leaves every other node, cache included, as it
\* was.
C14_CachePerInstance ==
    [][/\ \A n \in DOMAIN nodes :
             (last'.node /= n \/ last'.op \notin Accessors) => nodes'[n] = nodes[n]
       /\ \A n \in (DOMAIN nodes') \ (DOMAIN nodes) :
             nodes'[n].data = None /\ nodes'[n].oks = 0
       /\ (last'.op \in Accessors /\ vars' /= vars /\ nodes[last'.node].data = None) =>
             last'.rcalls = 1]_vars

\* two instances for the same path, each with the listing of its own remote call
C14_Witness ==
    /\ Len(nodes) = 2
    /\ nodes[1].key = nodes[2].key
    /\ nodes[1].oks = 1 /\ nodes[2].oks = 1
    /\ nodes[1].data /= nodes[2].data

\* C15: a cache that holds a listing is never replaced or cleared. What
\* list(subkeys()) and list(values()) return is read off that listing, the
\* child paths entry by entry and the decoded values record by record up to the
\* first record that does not decode, so a repeated call returns the same
\* paths and the same values, without a remote call.
C15_CacheWriteOnce ==
    /\ [][\A n \in DOMAIN nodes :
             nodes[n].data /= None => nodes'[n].data = nodes[n].data]_vars
    /\ []((last.op \in {"subkeys", "values"} /\ last.outcome /= "RemoteFetchError") =>
            LET ch == ChildList(last.node)
                recs == ValueList(last.node)
                stop == CHOOSE k \in 1..(Len(recs) + 1) :
                           /\ k = Len(recs) + 1 \/ ~DecodeRec(recs[k]).ok
                           /\ \A i \in 1..(k - 1) : DecodeRec(recs[i]).ok
            IN  /\ last.op = "subkeys" =>
                      /\ Len(last.keys) = Len(ch)
                      /\ \A i \in 1..Len(ch) :
                            last.keys[i] = Path(nodes[last.node]) \o <<SEP>> \o ch[i]
                /\ last.op = "values" =>
                      /\ Len(last.vals) = stop - 1
                      /\ \A i \in 1..(stop - 1) : last.vals[i] = DecodeRec(recs[i]))
    /\ [][(/\ last.op \in {"subkeys", "values"}
           /\ last.outcome /= "RemoteFetchError"
           /\ last'.op = last.op /\ last'.node = last.node) =>
             /\ last'.outcome = last.outcome
             /\ last'.keys = last.keys
             /\ last'.vals = last.vals
             /\ last'.rcalls = 0]_vars

\* list(values()) ran without a remote call on a node whose listing holds values
C15_Witness ==
    /\ last.op = "values"
    /\ last.outcome = "ok"
    /\ last.rcalls = 0
    /\ last.vals /= <<>>
    /\ nodes[last.node].oks = 1

\* C16: the node subkey(n) returns has the path of the parent, a backslash and
\* n as the caller spelled it, not the entry that matched; two lookups on one
\* node with names that differ, be it only in case, return different paths.
C16_SubkeyCallerCasing ==
    /\ []((last.op = "subkey" /\ last.outcome = "ok") =>
            last.keys = <<Path(nodes[last.node]) \o <<SEP>> \o last.arg>>)
    /\ [][(/\ last.op = "subkey" /\ last.outcome = "ok"
           /\ last'.op = "subkey" /\ last'.outcome = "ok"
           /\ last'.node = last.node
           /\ last'.arg /= last.arg) =>
             last'.keys /= last.keys]_vars

\* subkey("sy") matched the entry "Sy" only and returned the path ending in "sy"
C16_Witness ==
    /\ last.op = "subkey"
    /\ last.outcome = "ok"
    /\ last.arg = K_sy
    /\ ChildList(last.node) = <<K_Sy>>
    /\ last.keys = <<Path(nodes[last.node]) \o <<SEP>> \o K_sy>>

\* C17: nothing is retried. One call of subkey, subkeys, value or values on a
\* node with an empty cache issues exactly one remote call; when that call
\* raises, the accessor raises after this one call and returns nothing.
C17_NoRetry ==
    /\ [](/\ last.rcalls <= 1
          /\ last.outcome = "RemoteFetchError" =>
                last.rcalls = 1 /\ last.keys = <<>> /\ last.vals = <<>>)
    /\ [][(/\ last'.op \in Accessors
           /\ vars' /= vars
           /\ ~Truthy(nodes[last'.node].data)) =>
             last'.rcalls = 1]_vars

\* value() raised the error of its one remote call
C17_Witness ==
    /\ last.op = "value"
    /\ last.outcome = "RemoteFetchError"
    /\ last.rcalls = 1
    /\ nodes[last.node].oks = 0

\* the ways a lookup ends when the listing has no such name
Misses == {"KeyNotFound", "ValueNotFound"}

\* C20: a lookup that finds nothing leaves the cache populated: after subkey()
\* failed with KeyNotFound or value() with ValueNotFound the node holds its
\* listing, the one it held before if it held one, and the next accessor on the
\* node issues no remote call and leaves the listing as it is.
C20_MissKeepsCache ==
    /\ [](last.outcome \in Misses =>
            /\ Truthy(nodes[last.node].data)
            /\ nodes[last.node].oks = 1)
    /\ [][/\ (last'.outcome \in Misses /\ nodes[last'.node].data /= None) =>
                nodes'[last'.node].data = nodes[last'.node].data
          /\ (/\ last.outcome \in Misses
              /\ last'.op \in Accessors
              /\ last'.node = last.node) =>
                /\ last'.rcalls = 0
                /\ nodes'[last.node].data = nodes[last.node].data]_vars

\* value() fetched the listing, found no such name, and the listing is memoized
C20_Witness ==
    /\ last.op = "value"
    /\ last.outcome = "ValueNotFound"
    /\ last.rcalls = 1
    /\ nodes[last.node].data /= None

-----------------------------------------------------------------------------
(* The hive's key() on any relative path, and the properties of the node *)

\* relative paths of any shape: several segments, empty segments, none at all
HivePaths == Strs({"S", "y", SEP}, MaxPathLen)

\* hive.key(p) for the first node
HiveKeyAny(p) == nodes = <<>> /\ HiveKey(p)

NextHive ==
    \/ \E p \in HivePaths : HiveKeyAny(p)
    \/ \E n \in DOMAIN nodes, prop \in Properties : ReadProperty(n, prop)

SpecHive == Init /\ [][NextHive]_vars

\* C12: hive.key(p) returns a node whose path is the root key, a backslash and
\* p; the node's name is the last backslash-separated segment of that path: it
\* holds no backslash, the path ends with it, and a backslash or nothing
\* stands before it.
C12_HiveKeyPath ==
    /\ last.op = "key" =>
          /\ last.keys = <<RootKey \o <<SEP>> \o last.arg>>
          /\ nodes[last.node].key = last.keys[1]
    /\ last.op = "path" => last.keys = <<nodes[last.node].key>>
    /\ last.op = "name" =>
          /\ Len(last.keys) = 1
          /\ LET path == nodes[last.node].key
                 name == last.keys[1]
                 before == Len(path) - Len(name)
             IN  /\ \A k \in 1..Len(name) : name[k] /= SEP
                 /\ before >= 0
                 /\ SubSeq(path, before + 1, Len(path)) = name
                 /\ before > 0 => path[before] = SEP

\* the name of the node for a path of two segments was read
C12_Witness ==
    /\ last.op = "name"
    /\ nodes[last.node].key = <<"H", SEP, "S", SEP, "y">>
    /\ last.keys = << <<"y">> >>

-----------------------------------------------------------------------------
(* Enumerating the values of one node, one next() at a time *)

\* the raw records a listing may hold
ValueRecs == {V_bin, V_sz, V_badbin, V_badint}

\* the remote answers with any list of at most MaxValues records, or raises
ValueReplies ==
    {NoReply} \cup
    {[ok |-> TRUE, resp |-> Listing(<<>>, vs)] : vs \in Strs(ValueRecs, MaxValues)}

\* names handed to value() here
ScanArgs == {N_va, N_n, <<"q">>}

InitValues ==
    /\ nodes = <<HiveKeyNode(K_Sy)>>
    /\ gen = NoGen
    /\ last = NoCall
    /\ dec = DecIdle
    /\ mapper = MapperIdle

\* g = nodes[n].values(): self.data["values"] is evaluated by the call, the
\* records are decoded only as the generator it returns is advanced
CallValues(n, reply) ==
    /\ n \in DOMAIN nodes
    /\ LET d == Data(nodes[n], reply)
       IN  /\ nodes' = [nodes EXCEPT ![n] = d.nd]
           /\ gen' = IF d.raised THEN gen ELSE NewGen(n, d.nd.data[1].values)
           /\ last' = Call("values", n, <<>>,
                           IF d.raised THEN "RemoteFetchError" ELSE "ok",
                           <<>>, <<>>, d.rcalls)
    /\ UNCHANGED <<dec, mapper>>

\* next(g)
GenNext ==
    /\ gen.state /= "none"
    /\ LET r == GenStep(gen)
       IN  /\ gen' = r.gen
           /\ last' = Call("next", gen.node, <<>>, r.outcome, <<>>, r.vals, 0)
    /\ UNCHANGED <<nodes, dec, mapper>>

NextValues ==
    \/ \E reply \in RepliesFor(nodes[1].data, ValueReplies) : CallValues(1, reply)
    \/ GenNext
    \/ \E name \in ScanArgs :
          \E reply \in RepliesFor(nodes[1].data, ValueReplies) : DoValue(1, name, reply)

SpecValues == InitValues /\ [][NextValues]_vars

-----------------------------------------------------------------------------
(* Claims about the values of a node (SpecValues) *)

\* the positions of the records of recs that decode
WellFormed(recs) == {i \in 1..Len(recs) : DecodeRec(recs[i]).ok}

\* the positions of the records of recs whose name is name up to case
Named(recs, name) ==
    {i \in 1..Len(recs) : Lower(recs[i].registry_name) = Lower(name)}

\* C6: a record that does not decode does not end the enumeration for the
\* others: once the generator of values() over a list with one malformed record
\* has been walked to its end, every other record has been produced.
C6_DecodeFailureDoesNotAbort ==
    (/\ last.op = "next"
     /\ last.outcome = "StopIteration"
     /\ Cardinality(WellFormed(gen.recs)) = Len(gen.recs) - 1) =>
        \A i \in WellFormed(gen.recs) : \E k \in 1..Len(gen.yielded) : gen.yielded[k] = i

\* C7: value(name) returns a decoded value whose name is name up to case when
\* the memoized list holds such a value, and fails with ValueNotFound when no
\* record of the list has that name.
C7_ValueLookup ==
    (last.op = "value" /\ last.outcome /= "RemoteFetchError") =>
        LET recs == ValueList(last.node)
        IN  /\ (Named(recs, last.arg) \cap WellFormed(recs) /= {}) =>
                  /\ last.outcome = "ok"
                  /\ Len(last.vals) = 1
                  /\ Lower(last.vals[1].name) = Lower(last.arg)
            /\ (Named(recs, last.arg) = {}) => last.outcome = "ValueNotFound"

\* C18: value(name) decodes the records in the order of the listing up to the
\* first whose name is name up to case, and returns that one. It fails with the
\* decoding error exactly when a record that does not decode stands at or
\* before the first match, also when a later record matches and decodes;
\* records after the first match play no part.
C18_ValueScanOrder ==
    (last.op = "value" /\ last.outcome /= "RemoteFetchError") =>
        LET recs == ValueList(last.node)
            named == Named(recs, last.arg)
            good == WellFormed(recs)
            first == {i \in named : \A j \in 1..(i - 1) : j \notin named}
        IN  /\ last.outcome = "ok" <=>
                  \E i \in first : \A j \in 1..i : j \in good
            /\ last.outcome = "ok" =>
                  \A i \in first : last.vals = <<DecodeRec(recs[i])>>
            /\ last.outcome = "InvalidEncoding" <=>
                  \E b \in (1..Len(recs)) \ good : \A j \in 1..(b - 1) : j \notin named
            /\ last.outcome = "ValueNotFound" <=>
                  (named = {} /\ good = 1..Len(recs))

\* value(name) failed with the decoding error although a record further on has
\* that name and decodes
C18_Witness ==
    /\ last.op = "value"
    /\ last.outcome = "InvalidEncoding"
    /\ \E i \in Named(ValueList(last.node), last.arg) :
          i \in WellFormed(ValueList(last.node))

-----------------------------------------------------------------------------
(* The decoder alone *)

\* characters of the raw data strings tried
DataAlphabet == {"f", "F", "1", "g", " ", ",", "-", "_"}

InitDecode ==
    /\ nodes = <<>>
    /\ gen = NoGen
    /\ last = NoCall
    /\ mapper = MapperIdle
    /\ \E type \in TypeTags, data \in Strs(DataAlphabet, MaxDataLen) :
          dec = [type |-> type, data |-> data, done |-> FALSE,
                 result |-> NoValue(N_n, type)]

\* CbRegistryValue(hive, name, data, type_)
DoDecode ==
    /\ ~dec.done
    /\ dec' = [dec EXCEPT !.done = TRUE, !.result = Decode(N_n, dec.data, dec.type)]
    /\ UNCHANGED <<nodes, gen, last, mapper>>

NextDecode == DoDecode

SpecDecode == InitDecode /\ [][NextDecode]_vars

-----------------------------------------------------------------------------
(* Claims about the decoder (SpecDecode) *)

\* s without its whitespace
NoWS(s) == SelectSeq(s, LAMBDA c : c \notin WS)

\* how many of the first k characters of s are no whitespace
Solid(s, k) == Cardinality({j \in 1..k : s[j] \notin WS})

\* a hex string in the strict sense: hex digits only, two per byte
StrictHex(s) == Len(s) % 2 = 0 /\ \A k \in 1..Len(s) : IsHexDigit(s[k])

\* a hex string with ASCII whitespace before, between or after its bytes
SpacedHex(s) ==
    /\ StrictHex(NoWS(s))
    /\ \A k \in 1..Len(s) : s[k] \in WS => Solid(s, k) % 2 = 0

\* the bytes a strict hex string spells
HexBytes(s) == [k \in 1..(Len(s) \div 2) |-> 16 * HexVal(s[2 * k - 1]) + HexVal(s[2 * k])]

\* a base-10 integer string in the strict sense: an optional sign, then digits
StrictInt(s) ==
    LET digits == IF s /= <<>> /\ s[1] \in {"+", "-"} THEN Tail(s) ELSE s
    IN  digits /= <<>> /\ \A k \in 1..Len(digits) : IsDigit(digits[k])

\* a base-10 literal as int() reads it: whitespace around it, an optional sign,
\* digits that single underscores may separate
LiteralInt(s) ==
    LET first == CHOOSE k \in 1..(Len(s) + 1) :
                    (k = Len(s) + 1 \/ s[k] \notin WS) /\ \A j \in 1..(k - 1) : s[j] \in WS
        last_ == CHOOSE k \in 0..Len(s) :
                    (k = 0 \/ s[k] \notin WS) /\ \A j \in (k + 1)..Len(s) : s[j] \in WS
        t == SubSeq(s, first, last_)
        digits == IF t /= <<>> /\ t[1] \in {"+", "-"} THEN Tail(t) ELSE t
    IN  /\ digits /= <<>>
        /\ \A k \in 1..Len(digits) : IsDigit(digits[k]) \/ digits[k] = "_"
        /\ IsDigit(digits[1]) /\ IsDigit(digits[Len(digits)])
        /\ \A k \in 1..(Len(digits) - 1) : ~(digits[k] = "_" /\ digits[k + 1] = "_")

\* x is a Python int: a sign and a magnitude of limbs with no leading zero limb
IsPyInt(x) ==
    /\ x.neg \in BOOLEAN
    /\ \A k \in 1..Len(x.mag) : x.mag[k] \in 0..(LimbBase - 1)
    /\ x.mag /= <<>> => x.mag[Len(x.mag)] /= 0
    /\ x.neg => x.mag /= <<>>

\* how many times character c occurs in s
Count(s, c) == Cardinality({k \in 1..Len(s) : s[k] = c})

\* the pieces joined by c: c.join(pieces)
RECURSIVE JoinAll(_, _)
JoinAll(pieces, c) ==
    IF Len(pieces) = 1 THEN pieces[1]
    ELSE pieces[1] \o <<c>> \o JoinAll(Tail(pieces), c)

\* C9: the type tag alone decides the decoding: a binary tag yields the bytes of
\* the hex data, the dword and qword tags an integer, the multi-string tag the
\* pieces of the data split at every comma, and any other tag, known or not,
\* the data unchanged, without ever failing.
C9_DecodeByTag ==
    /\ dec.done =>
        LET v == dec.result
        IN  /\ v.name = N_n /\ v.type = dec.type
            /\ dec.type = REG_BINARY =>
                  (v.ok => v.kind = "bytes" /\ v.b = HexBytes(NoWS(dec.data)))
            /\ dec.type \in {REG_DWORD, REG_QWORD} =>
                  (v.ok => v.kind = "int" /\ IsPyInt(v.i))
            /\ dec.type = REG_MULTI_SZ =>
                  /\ v.ok /\ v.kind = "list"
                  /\ Len(v.l) = Count(dec.data, ",") + 1
                  /\ \A k \in 1..Len(v.l) : Count(v.l[k], ",") = 0
                  /\ JoinAll(v.l, ",") = dec.data
            /\ dec.type \notin {REG_BINARY, REG_DWORD, REG_QWORD, REG_MULTI_SZ} =>
                  v.ok /\ v.kind = "str" /\ v.s = dec.data
    /\ Decode(N_n, <<"a", ",", "b", ",", "c">>, REG_MULTI_SZ).l = <<<<"a">>, <<"b">>, <<"c">>>>
    /\ Decode(N_n, <<"s", "o", "l", "o">>, REG_MULTI_SZ).l = <<<<"s", "o", "l", "o">>>>
    /\ Decode(N_n, <<"h", "e", "l", "l", "o">>, REG_SZ).s = <<"h", "e", "l", "l", "o">>

\* a multi-string whose data starts with a comma was split into two pieces
C9_Witness ==
    /\ dec.done
    /\ dec.type = REG_MULTI_SZ
    /\ Len(dec.data) = 2 /\ dec.data[1] = ","
    /\ Len(dec.result.l) = 2

\* C10 as stated: binary data that is no hex string, and dword or qword data that
\* is no base-10 integer string, fail to decode and produce no value; a valid hex
\* string decodes to exactly its bytes.
C10_MalformedFails ==
    dec.done =>
        /\ (dec.type = REG_BINARY /\ ~StrictHex(dec.data)) => ~dec.result.ok
        /\ (dec.type \in {REG_DWORD, REG_QWORD} /\ ~StrictInt(dec.data)) => ~dec.result.ok
        /\ (dec.type = REG_BINARY /\ StrictHex(dec.data)) =>
              dec.result.ok /\ dec.result.b = HexBytes(dec.data)

\* C10 amended: binary data that is no hex string even with whitespace between
\* its bytes ignored, and dword or qword data that is no literal int() reads
\* (whitespace around it, a sign, single underscores between digits), fail to
\* decode and produce no value; a valid hex string decodes to exactly its bytes.
C10_MalformedFailsAmended ==
    dec.done =>
        /\ (dec.type = REG_BINARY /\ ~SpacedHex(dec.data)) =>
              ~dec.result.ok /\ dec.result.kind = "none"
        /\ (dec.type \in {REG_DWORD, REG_QWORD} /\ ~LiteralInt(dec.data)) =>
              ~dec.result.ok /\ dec.result.kind = "none"
        /\ (dec.type = REG_BINARY /\ StrictHex(dec.data)) =>
              dec.result.ok /\ dec.result.b = HexBytes(dec.data)

\* binary data with a character that is no hex digit failed to decode
C10_Witness ==
    /\ dec.done
    /\ dec.type = REG_BINARY
    /\ \E k \in 1..Len(dec.data) : dec.data[k] = "g"
    /\ ~dec.result.ok

-----------------------------------------------------------------------------
(* The decoder on integers of up to 64 bits *)

\* the digits of 2^64 - 1, of 2^63 and of 2^32
U64Max ==
    <<"1", "8", "4", "4", "6", "7", "4", "4", "0", "7",
      "3", "7", "0", "9", "5", "5", "1", "6", "1", "5">>
I64Min ==
    <<"9", "2", "2", "3", "3", "7", "2", "0", "3", "6",
      "8", "5", "4", "7", "7", "5", "8", "0", "8">>
U32Wrap == <<"4", "2", "9", "4", "9", "6", "7", "2", "9", "6">>

\* the non-empty pieces of consecutive characters of s
Pieces(s) == {SubSeq(s, a, b) : a \in 1..Len(s), b \in 1..Len(s)} \ {<<>>}

\* base-10 integer strings within the 64-bit range: pieces of the unsigned
\* maximum, with leading zeros or a plus sign, and pieces of the signed minimum
\* with either sign
IntStrings ==
    LET unsigned == Pieces(<<"0", "0">> \o U64Max) \cup Pieces(U32Wrap)
        signed == Pieces(I64Min)
    IN  unsigned \cup signed
        \cup {<<"+">> \o s : s \in Pieces(U64Max)}
        \cup {<<"-">> \o s : s \in signed \cup {<<"0">>}}

InitInt ==
    /\ nodes = <<>>
    /\ gen = NoGen
    /\ last = NoCall
    /\ mapper = MapperIdle
    /\ \E type \in {REG_DWORD, REG_QWORD}, data \in IntStrings :
          dec = [type |-> type, data |-> data, done |-> FALSE,
                 result |-> NoValue(N_n, type)]

SpecInt == InitInt /\ [][NextDecode]_vars

\* the big-endian limbs be divided by ten, r carried in from the left
RECURSIVE Div10(_, _)
Div10(be, r) ==
    IF be = <<>> THEN [q |-> <<>>, r |-> r]
    ELSE LET x == r * LimbBase + be[1]
             rest == Div10(Tail(be), x % 10)
         IN  [q |-> <<x \div 10>> \o rest.q, r |-> rest.r]

\* s without its leading elements equal to z
RECURSIVE DropLeading(_, _)
DropLeading(s, z) == IF s /= <<>> /\ s[1] = z THEN DropLeading(Tail(s), z) ELSE s

\* the decimal digits of the number the big-endian limbs be hold, none for zero
RECURSIVE Digits(_)
Digits(be) ==
    IF be = <<>> THEN <<>>
    ELSE LET d == Div10(be, 0)
         IN  Digits(DropLeading(d.q, 0)) \o <<DecDigits[d.r + 1]>>

\* str(x) of a Python int
Str(x) ==
    LET be == [k \in 1..Len(x.mag) |-> x.mag[Len(x.mag) + 1 - k]]
    IN  IF x.mag = <<>> THEN <<"0">>
        ELSE (IF x.neg THEN <<"-">> ELSE <<>>) \o Digits(be)

\* the canonical spelling of the number a strict base-10 string denotes: no
\* plus sign, no leading zeros, no minus sign on zero
Canonical(s) ==
    LET signed == s[1] \in {"+", "-"}
        digits == DropLeading(IF signed THEN Tail(s) ELSE s, "0")
    IN  IF digits = <<>> THEN <<"0">>
        ELSE (IF s[1] = "-" THEN <<"-">> ELSE <<>>) \o digits

\* C11: a base-10 integer string within the 64-bit range decodes, under the
\* dword tag and under the qword tag alike, to exactly the integer it denotes:
\* the decoded value prints back as the canonical spelling of the string, and
\* the other tag gives the same value.
C11_IntegerExact ==
    (dec.done /\ dec.type \in {REG_DWORD, REG_QWORD} /\ StrictInt(dec.data)) =>
        /\ dec.result.ok
        /\ dec.result.kind = "int"
        /\ IsPyInt(dec.result.i)
        /\ Str(dec.result.i) = Canonical(dec.data)
        /\ Decode(N_n, dec.data, REG_DWORD).i = Decode(N_n, dec.data, REG_QWORD).i

\* the unsigned 64-bit maximum decoded under the dword tag to four full limbs
C11_Witness ==
    /\ dec.done
    /\ dec.type = REG_DWORD
    /\ dec.data = U64Max
    /\ dec.result.ok
    /\ dec.result.i = MkInt(FALSE, <<65535, 65535, 65535, 65535>>)

-----------------------------------------------------------------------------
(* CbRegistry._init_registry *)

\* RegistryPlugin.MAPPINGS: hive name -> root key, distinct names and roots
Mappings == [i \in 1..NumMappings |-> [hive_name |-> <<"hive", i>>, rootkey |-> <<"root", i>>]]

\* how a call into the plugin base class may end
StepOutcomes == {"ok", "RegistryError", "OtherError"}

InitMapper ==
    /\ nodes = <<>>
    /\ gen = NoGen
    /\ last = NoCall
    /\ dec = DecIdle
    /\ mapper = [MapperIdle EXCEPT !.pc = "for"]

\* RegistryPlugin.add_hive(name, hive, path): the hive is registered under its name
AddHiveEffect(m, i) == [m EXCEPT !.hives = @ \cup {Mappings[i].hive_name}]

\* RegistryPlugin.map_hive(location, hive): the root key is mapped to the hive
MapHiveEffect(m, i) == [m EXCEPT !.roots = @ \cup {Mappings[i].rootkey}]

\* Raised, had an exception that leaves _init_registry undone what was registered
Raised_RollsBack(m, outcome) ==
    IF outcome = "RegistryError"
    THEN [m EXCEPT !.failed = @ \cup {m.idx}, !.idx = @ + 1, !.pc = "for"]
    ELSE [m EXCEPT !.pc = "raised", !.error = outcome, !.hives = {}, !.roots = {}]

\* except RegistryError: continue; any other exception leaves _init_registry
Raised(m, outcome) ==
    IF outcome = "RegistryError"
    THEN [m EXCEPT !.failed = @ \cup {m.idx}, !.idx = @ + 1, !.pc = "for"]
    ELSE [m EXCEPT !.pc = "raised", !.error = outcome]

\* for hive_name, rootkey in self.MAPPINGS.items(): hive = CbRegistryHive(...)
ForEntry ==
    /\ mapper.pc = "for"
    /\ mapper' = IF mapper.idx <= NumMappings
                 THEN [mapper EXCEPT !.pc = "add_hive"]
                 ELSE [mapper EXCEPT !.pc = "done"]
    /\ UNCHANGED <<nodes, gen, last, dec>>

\* self.add_hive(hive_name, hive, None)
AddHive(outcome) ==
    /\ mapper.pc = "add_hive"
    /\ mapper' = IF outcome = "ok"
                 THEN [AddHiveEffect(mapper, mapper.idx) EXCEPT !.pc = "map_hive"]
                 ELSE Raised(mapper, outcome)
    /\ UNCHANGED <<nodes, gen, last, dec>>

\* self.map_hive(rootkey, hive)
MapHive(outcome) ==
    /\ mapper.pc = "map_hive"
    /\ mapper' = IF outcome = "ok"
                 THEN [MapHiveEffect(mapper, mapper.idx) EXCEPT !.idx = @ + 1, !.pc = "for"]
                 ELSE Raised(mapper, outcome)
    /\ UNCHANGED <<nodes, gen, last, dec>>

NextMapper ==
    \/ ForEntry
    \/ \E outcome \in StepOutcomes : AddHive(outcome)
    \/ \E outcome \in StepOutcomes : MapHive(outcome)

SpecMapper == InitMapper /\ [][NextMapper]_vars

-----------------------------------------------------------------------------
(* Claims about the mapper (SpecMapper) *)

\* the entries of MAPPINGS
Entries == 1..NumMappings

\* C4: a registry-layer error of one entry does not leave _init_registry; the
\* loop goes on through the table, and the hives exposed afterwards are exactly
\* those of the entries none of whose steps raised.
C4_PartialFailureTolerant ==
    /\ mapper.pc = "raised" => mapper.error /= "RegistryError"
    /\ mapper.pc = "done" =>
          /\ mapper.idx = NumMappings + 1
          /\ mapper.hives = {Mappings[i].hive_name : i \in Entries \ mapper.failed}

\* C5: an entry one of whose two steps raised a registry-layer error has, after
\* initialization, no hive under its name and no root mapping.
C5_FailedEntryAbsent ==
    mapper.pc = "done" =>
        \A i \in mapper.failed :
            /\ Mappings[i].hive_name \notin mapper.hives
            /\ Mappings[i].rootkey \notin mapper.roots

\* C19: only registry-layer errors are absorbed. An error of any other kind
\* leaves _init_registry as that error, at the entry whose step raised it: what
\* was registered up to that step stays registered, the entries before it that
\* did not fail have their hive and their root mapping, no later entry is
\* looked at, and nothing happens afterwards.
C19_OtherErrorAborts ==
    /\ [](mapper.pc = "raised" =>
            /\ mapper.error = "OtherError"
            /\ mapper.idx \in Entries
            /\ mapper.idx \notin mapper.failed
            /\ Mappings[mapper.idx].rootkey \notin mapper.roots
            /\ \A i \in Entries :
                  /\ (i < mapper.idx /\ i \notin mapper.failed) =>
                        /\ Mappings[i].hive_name \in mapper.hives
                        /\ Mappings[i].rootkey \in mapper.roots
                  /\ i > mapper.idx =>
                        /\ Mappings[i].hive_name \notin mapper.hives
                        /\ Mappings[i].rootkey \notin mapper.roots
                        /\ i \notin mapper.failed)
    /\ [][/\ mapper.pc = "raised" => mapper' = mapper
          /\ mapper'.pc = "raised" =>
                /\ mapper.hives \subseteq mapper'.hives
                /\ mapper.roots \subseteq mapper'.roots
                /\ mapper'.failed = mapper.failed
                /\ mapper'.idx = mapper.idx]_vars

\* map_hive of the second entry raised another error after the first entry was
\* registered and the second hive added
C19_Witness ==
    /\ mapper.pc = "raised"
    /\ mapper.error = "OtherError"
    /\ mapper.idx = 2
    /\ mapper.hives = {Mappings[1].hive_name, Mappings[2].hive_name}
    /\ mapper.roots = {Mappings[1].rootkey}

=============================================================================
